---- MODULE Spec2Model ----
(***************************************************************************)
(* Model of the fund tracer of src/src/lib.rs: the Stat traversal state,   *)
(* analyze_transactions and the driver loop of find_addresses, run over a  *)
(* bounded synthetic chain (initial coins plus a few transactions).        *)
(***************************************************************************)
EXTENDS Integers, Sequences, FiniteSets, TLC

VARIABLES
    \* the inputs of a run
    seeds,            \* the seeding operations, in order
    chain,            \* the transactions the node holds, in chain order
    page_limit,       \* the largest page the node returns
    \* the state of find_addresses
    stat,             \* the Stat value
    unspent_utxos,    \* Vec<UtxoId> of the outputs found unspent
    cur_utxo_id,      \* `utxo_id`, the output the outer loop holds
    seeded,           \* how many seeding operations have run
    report,           \* the (utxo_id, amount) pairs printed at the end
    pc,               \* "seed", "outer", "inner", "done" or "panicked"
    \* history of the run, read by the properties only
    pushed_addresses, \* every push_back on addresses_to_check, in order
    pushed_utxos,     \* every push_back on utxo_id_to_check, in order
    dequeues,         \* number of successful next_address / next_utxo_id
    expanded,         \* outputs whose spending transaction was expanded
    fetches,          \* the pages requested: owner, cursor, answer
    \* the block whose producer is recovered
    block,               \* the FullBlock: header id and consensus
    expected_public_key, \* the producer key known out of band
    producer,            \* the Option<PublicKey> block_producer returned
    resolved             \* the outcome of resolve

vars == <<seeds, chain, page_limit, stat, unspent_utxos, cur_utxo_id, seeded, report, pc,
          pushed_addresses, pushed_utxos, dequeues, expanded, fetches,
          block, expected_public_key, producer, resolved>>

block_vars == <<block, expected_public_key, producer, resolved>>

run_inputs == <<seeds, chain, page_limit>>

\* ------------------------------------------------------------------------
\* Program constants
\* ------------------------------------------------------------------------

\* const THRESHOLD: u64 = 10_000_000
THRESHOLD == 10000000

\* const FAUCET_ADDRESS (the address Stat::new pre-inserts)
FAUCET_ADDRESS == "F"

\* chain_config.consensus_parameters.base_asset_id
base_asset_id == "base"

\* TxId::default(), the transaction id of the initial coins' UtxoIds
DefaultTxId == 0

\* `i as u8`: output indexes are truncated to 8 bits
U8 == 256

\* ------------------------------------------------------------------------
\* Bounds of the synthetic chain
\* ------------------------------------------------------------------------

MaxSeeds == 2
MaxTxs == 2
MaxInputs == 2
MaxOutputs == 2
MaxPage == 2

Address == {FAUCET_ADDRESS, "A", "B"}
NoAddress == "none"

\* amounts at the threshold (dust) and above it
Amounts == {THRESHOLD, 2 * THRESHOLD}

\* ------------------------------------------------------------------------
\* Helpers on finite maps and sequences
\* ------------------------------------------------------------------------

EmptyMap == [x \in {} |-> 0]

Put(m, k, v) == [x \in (DOMAIN m) \cup {k} |-> IF x = k THEN v ELSE m[x]]

Range(s) == {s[i] : i \in DOMAIN s}

SeqsUpTo(S, lo, hi) == UNION {[1..n -> S] : n \in lo..hi}

NoDuplicates(s) == \A i, j \in DOMAIN s : s[i] = s[j] => i = j

\* UtxoId::new(tx_id, output_index)
UtxoId(tx_id, output_index) == [tx_id |-> tx_id, output_index |-> output_index]

\* ------------------------------------------------------------------------
\* Stat
\* ------------------------------------------------------------------------

\* Stat::new: everything default, the faucet address already in
\* checked_addresses (and not in addresses_to_check)
StatNew ==
    [ utxo_ids           |-> EmptyMap,
      txs                |-> EmptyMap,
      addresses_to_check |-> << >>,
      checked_addresses  |-> {FAUCET_ADDRESS},
      utxo_id_to_check   |-> << >>,
      checked_utxo_id    |-> EmptyMap,
      message_id         |-> << >> ]

check_address_no_guard(s, owner) ==
    [s EXCEPT !.addresses_to_check = Append(@, owner),
              !.checked_addresses = @ \cup {owner}]

check_address(s, owner) ==
    IF owner \notin s.checked_addresses
    THEN [s EXCEPT !.addresses_to_check = Append(@, owner),
                   !.checked_addresses = @ \cup {owner}]
    ELSE s

check_utxo_no_guard(s, utxo_id, amount) ==
    [s EXCEPT !.utxo_id_to_check = Append(@, utxo_id),
              !.checked_utxo_id = Put(@, utxo_id, amount)]

check_utxo(s, utxo_id, amount) ==
    IF utxo_id \notin DOMAIN s.checked_utxo_id
    THEN [s EXCEPT !.utxo_id_to_check = Append(@, utxo_id),
                   !.checked_utxo_id = Put(@, utxo_id, amount)]
    ELSE s

\* register_tx: txs.insert(id, tx); the id is derived from the
\* transaction's content, carried here as the field `id`
\* register_tx that computes the id and does not insert
register_tx_no_insert(s, tx) == s

register_tx(s, tx) == [s EXCEPT !.txs = Put(@, tx.id, tx)]

\* spent_utxo: utxo_ids.insert(utxo_id, UtxoStat { spent: tx_id })
spent_utxo(s, utxo_id, tx_id) ==
    [s EXCEPT !.utxo_ids = Put(@, utxo_id, [spent |-> tx_id])]

\* Input::compute_message_id: a digest of the five fields, modelled as an
\* injective function of them
compute_message_id(sender, recipient, nonce, amount, data) ==
    <<"message_id", sender, recipient, nonce, amount, data>>

\* ------------------------------------------------------------------------
\* Chain data: what the node answers from
\* ------------------------------------------------------------------------

IsCoinOutput(output) == output.type \in {"Coin", "Change", "Variable"}

IsCoinInput(input) == input.type \in {"CoinSigned", "CoinPredicate"}

\* The outputs a synthetic transaction may carry: one output of any
\* kind, or a payment to B followed by change outputs back to A
OutputChoice ==
    [type : {"Coin"}, to : Address, amount : {2 * THRESHOLD}, asset_id : {base_asset_id}]
    \cup [type : {"Coin"}, to : {"B"}, amount : {THRESHOLD}, asset_id : {base_asset_id}]
    \cup [type : {"Variable"}, to : {"A"}, amount : {2 * THRESHOLD}, asset_id : {"other"}]
    \cup [type : {"Contract"}, to : {NoAddress}, amount : {0}, asset_id : {base_asset_id}]

PaymentChoice ==
    [type : {"Coin"}, to : {"B"}, amount : Amounts, asset_id : {base_asset_id}]

ChangeChoice ==
    [type : {"Change"}, to : {"A"}, amount : {2 * THRESHOLD}, asset_id : {base_asset_id}]

OutputSeqs(max) ==
    {<<o>> : o \in OutputChoice}
    \cup UNION { {[i \in 1..n |-> IF i = 1 THEN p ELSE c] :
                    p \in PaymentChoice, c \in ChangeChoice} : n \in 2..max }

\* The receipts a synthetic transaction may produce, by kind; a message's
\* nonce is taken from the transaction so that distinct messages differ
ReceiptKind == {"none", "message_out", "message_out_dust", "transfer", "transfer_dust",
                "transfer_other", "transfer_out"}

BridgeKinds == {"none", "message_out"}

Receipt(type, n, amount) ==
    [type |-> type, sender |-> "A", recipient |-> "B", nonce |-> n,
     amount |-> amount, asset_id |-> base_asset_id, data |-> "data"]

Receipts(kind, n) ==
    CASE kind = "none" -> << >>
      [] kind = "message_out" -> << Receipt("MessageOut", n, 2 * THRESHOLD) >>
      [] kind = "message_out_dust" -> << Receipt("MessageOut", n, THRESHOLD) >>
      [] kind = "transfer" -> << Receipt("Transfer", n, 2 * THRESHOLD) >>
      [] kind = "transfer_dust" -> << Receipt("Transfer", n, THRESHOLD) >>
      [] kind = "transfer_other" ->
            << [Receipt("Transfer", n, 2 * THRESHOLD) EXCEPT !.asset_id = "other"] >>
      [] kind = "transfer_out" -> << Receipt("TransferOut", n, 2 * THRESHOLD) >>

\* The seeding operations of a run: a coin of the initial state (its
\* UtxoId and its owner are both seeded) or an address alone (seeding the
\* faucet address alone is what seeding a coin of the faucet also does)
SeedChoice ==
    [kind : {"coin"}, owner : Address, amount : {2 * THRESHOLD}]
    \cup [kind : {"address"}, owner : Address \ {FAUCET_ADDRESS}, amount : {0}]

\* the coins among the first n seeds
RECURSIVE CoinsBefore(_, _)
CoinsBefore(sd, n) ==
    IF n = 0 THEN << >>
    ELSE IF sd[n].kind = "coin" THEN Append(CoinsBefore(sd, n - 1), sd[n])
         ELSE CoinsBefore(sd, n - 1)

Coins(sd) == CoinsBefore(sd, Len(sd))

\* UtxoId::new(Default::default(), i as u8 + 1) for the coin at (1-based)
\* position k of the initial state
CoinUtxoId(k) == UtxoId(DefaultTxId, ((k - 1) % U8) + 1)

\* A transaction shape: what it spends (coin outputs, or a message bridged
\* in to a recipient), and what it produces
NoUtxo == UtxoId(DefaultTxId, 0)

SpendRefs ==
    [kind : {"coin"}, recipient : {NoAddress},
     utxo_id : {UtxoId(DefaultTxId, k) : k \in 1..MaxSeeds}
               \cup {UtxoId(t, o) : t \in 1..(MaxTxs - 1), o \in 0..(MaxOutputs - 1)}]
    \cup [kind : {"message"}, recipient : {"A"}, utxo_id : {NoUtxo}]

\* one input, or up to MaxInputs consecutive coins of the initial state
CoinRef(k) == [kind |-> "coin", recipient |-> NoAddress, utxo_id |-> UtxoId(DefaultTxId, k)]

SpendSeqs ==
    {<<r>> : r \in SpendRefs}
    \cup {[j \in 1..len |-> CoinRef(k + j - 1)] : k \in 1..MaxSeeds, len \in 2..MaxInputs}

TxShape(kinds) ==
    [spends : SpendSeqs,
     outputs : OutputSeqs(MaxOutputs),
     receipts : kinds]

\* the output a reference names, in a chain of shapes over the coins cs
RefExists(cs, shapes, n, ref) ==
    IF ref.kind = "message" THEN TRUE
    ELSE IF ref.utxo_id.tx_id = DefaultTxId
    THEN ref.utxo_id.output_index \in 1..Len(cs)
    ELSE /\ ref.utxo_id.tx_id \in 1..(n - 1)
         /\ ref.utxo_id.output_index + 1 \in DOMAIN shapes[ref.utxo_id.tx_id].outputs
         /\ IsCoinOutput(shapes[ref.utxo_id.tx_id].outputs[ref.utxo_id.output_index + 1])

RefOwner(cs, shapes, ref) ==
    IF ref.kind = "message" THEN ref.recipient
    ELSE IF ref.utxo_id.tx_id = DefaultTxId
    THEN cs[ref.utxo_id.output_index].owner
    ELSE shapes[ref.utxo_id.tx_id].outputs[ref.utxo_id.output_index + 1].to

\* every input spends an existing coin output of the genesis state or of an
\* earlier transaction, and no output is spent twice
WellFormed(cs, shapes) ==
    /\ \A n \in DOMAIN shapes :
         \A j \in DOMAIN shapes[n].spends :
            RefExists(cs, shapes, n, shapes[n].spends[j])
    /\ \A n, m \in DOMAIN shapes :
         \A j \in DOMAIN shapes[n].spends, k \in DOMAIN shapes[m].spends :
            (/\ shapes[n].spends[j].kind = "coin"
             /\ shapes[n].spends[j] = shapes[m].spends[k]) => (n = m /\ j = k)

\* the node's answer for one transaction: the transaction (with the id
\* its content hashes to) and the receipts of its status
Response(cs, shapes, n) ==
    [transaction |->
        [id |-> n,
         inputs |-> [j \in DOMAIN shapes[n].spends |->
                        [type |-> IF shapes[n].spends[j].kind = "coin"
                                  THEN "CoinSigned" ELSE "MessageCoinSigned",
                         utxo_id |-> shapes[n].spends[j].utxo_id,
                         owner |-> RefOwner(cs, shapes, shapes[n].spends[j])]],
         outputs |-> shapes[n].outputs],
     receipts |-> Receipts(shapes[n].receipts, n)]

Chains(cs, kinds) ==
    { [n \in DOMAIN shapes |-> Response(cs, shapes, n)] :
        shapes \in { sh \in UNION {[1..len -> TxShape(kinds)] : len \in 0..MaxTxs} :
                        WellFormed(cs, sh) } }

\* the transactions the node lists for an owner: those with an input of
\* the owner (a coin's owner, a message's recipient) or a coin output to
\* the owner, in chain order
Involves(owner, response) ==
    \/ \E j \in DOMAIN response.transaction.inputs :
         response.transaction.inputs[j].owner = owner
    \/ \E j \in DOMAIN response.transaction.outputs :
         /\ IsCoinOutput(response.transaction.outputs[j])
         /\ response.transaction.outputs[j].to = owner

History(ch, owner) == SelectSeq(ch, LAMBDA r : Involves(owner, r))

Min(a, b) == IF a < b THEN a ELSE b

\* PaginationRequest { cursor: None, results: 100_000_000, Forward }
RequestResults == 100000000

NoCursor == 0

\* client.transactions_by_owner(&owner, request): one page of the owner's
\* history, starting after the cursor, of at most request.results entries
\* and at most the node's page limit
transactions_by_owner(ch, limit, owner, request) ==
    LET history == History(ch, owner)
        first == request.cursor + 1
        last == Min(Len(history), request.cursor + Min(request.results, limit))
    IN [cursor |-> last,
        has_next_page |-> last < Len(history),
        results |-> SubSeq(history, first, last)]

\* ------------------------------------------------------------------------
\* analyze_transactions
\* ------------------------------------------------------------------------

\* for receipt in receipts: only a MessageOut above the threshold changes
\* the state (Transfer and TransferOut are only printed)
\* analyze_receipts with `amount < THRESHOLD` as the MessageOut test
RECURSIVE analyze_receipts_lt(_, _, _)
analyze_receipts_lt(s, receipts, i) ==
    IF i > Len(receipts) THEN s
    ELSE LET receipt == receipts[i]
             s1 == IF receipt.type = "MessageOut" /\ ~(receipt.amount < THRESHOLD)
                   THEN [s EXCEPT !.message_id =
                            Append(@, compute_message_id(receipt.sender, receipt.recipient,
                                        receipt.nonce, receipt.amount, receipt.data))]
                   ELSE s
         IN analyze_receipts_lt(s1, receipts, i + 1)

RECURSIVE analyze_receipts(_, _, _)
analyze_receipts(s, receipts, i) ==
    IF i > Len(receipts) THEN s
    ELSE LET receipt == receipts[i]
             s1 == IF receipt.type = "MessageOut" /\ ~(receipt.amount <= THRESHOLD)
                   THEN [s EXCEPT !.message_id =
                            Append(@, compute_message_id(receipt.sender, receipt.recipient,
                                        receipt.nonce, receipt.amount, receipt.data))]
                   ELSE s
         IN analyze_receipts(s1, receipts, i + 1)

\* for input in inputs: every coin input is recorded as spent by tx_id and
\* its owner is seeded
RECURSIVE analyze_inputs(_, _, _, _)
analyze_inputs(s, inputs, tx_id, i) ==
    IF i > Len(inputs) THEN s
    ELSE LET input == inputs[i]
             s1 == IF IsCoinInput(input)
                   THEN check_address(spent_utxo(s, input.utxo_id, tx_id), input.owner)
                   ELSE s
         IN analyze_inputs(s1, inputs, tx_id, i + 1)

analyze_transaction(s, response) ==
    LET tx == response.transaction
        s1 == register_tx(s, tx)
        s2 == analyze_receipts(s1, response.receipts, 1)
    IN analyze_inputs(s2, tx.inputs, tx.id, 1)

RECURSIVE analyze_from(_, _, _)
analyze_from(txs, s, i) ==
    IF i > Len(txs) THEN s
    ELSE analyze_from(txs, analyze_transaction(s, txs[i]), i + 1)

analyze_transactions(txs, s) == analyze_from(txs, s, 1)

\* ------------------------------------------------------------------------
\* find_addresses: the disposition of a dequeued output
\* ------------------------------------------------------------------------

\* the two tests of the output loop: `*amount <= THRESHOLD` and
\* `*asset_id != base_asset_id` both skip the output
OutputTracked_lt(output) ==
    /\ IsCoinOutput(output)
    /\ ~(output.amount < THRESHOLD)
    /\ ~(output.asset_id # base_asset_id)

OutputTracked(output) ==
    /\ IsCoinOutput(output)
    /\ ~(output.amount <= THRESHOLD)
    /\ ~(output.asset_id # base_asset_id)

\* for (i, output) in outputs.iter().enumerate(), i counted from 0
RECURSIVE expand_outputs(_, _, _, _)
expand_outputs(s, tx_id, outputs, i) ==
    IF i > Len(outputs) THEN s
    ELSE LET output == outputs[i]
             s1 == IF OutputTracked(output)
                   THEN check_utxo(check_address(s, output.to),
                                   UtxoId(tx_id, (i - 1) % U8), output.amount)
                   ELSE s
         IN expand_outputs(s1, tx_id, outputs, i + 1)

\* ------------------------------------------------------------------------
\* find_addresses as a state machine
\* ------------------------------------------------------------------------

\* the seed set of the run
SeededAddresses == {seeds[i].owner : i \in DOMAIN seeds}

SeededUtxos == {CoinUtxoId(k) : k \in 1..Len(Coins(seeds))}

\* The addresses and outputs reachable from the seed set in the chain: the
\* seeds; the owners of the coin inputs of any transaction in a reachable
\* address's history; the outputs above the threshold in the base asset,
\* and their addresses, of any transaction consuming a reachable output.
TrackedOutputsOf(n) ==
    {j \in DOMAIN chain[n].transaction.outputs :
        /\ IsCoinOutput(chain[n].transaction.outputs[j])
        /\ chain[n].transaction.outputs[j].amount > THRESHOLD
        /\ chain[n].transaction.outputs[j].asset_id = base_asset_id}

CoinInputsOf(n) ==
    {j \in DOMAIN chain[n].transaction.inputs :
        IsCoinInput(chain[n].transaction.inputs[j])}

ReachStep(R) ==
    LET seen == {n \in DOMAIN chain : \E a \in R.addresses : Involves(a, chain[n])}
        spending == {n \in DOMAIN chain :
                        \E j \in CoinInputsOf(n) :
                            chain[n].transaction.inputs[j].utxo_id \in R.utxos}
    IN [addresses |->
            R.addresses
            \cup UNION {{chain[n].transaction.inputs[j].owner : j \in CoinInputsOf(n)} :
                            n \in seen}
            \cup UNION {{chain[n].transaction.outputs[j].to : j \in TrackedOutputsOf(n)} :
                            n \in spending},
        utxos |->
            R.utxos
            \cup UNION {{UtxoId(chain[n].transaction.id, j - 1) : j \in TrackedOutputsOf(n)} :
                            n \in spending}]

RECURSIVE ReachFrom(_)
ReachFrom(R) ==
    LET next == ReachStep(R)
    IN IF next = R THEN R ELSE ReachFrom(next)

Reachable == ReachFrom([addresses |-> SeededAddresses, utxos |-> SeededUtxos])

StepBound == Cardinality(Reachable.addresses) + Cardinality(Reachable.utxos)

\* what an operation appended to a queue that held `before`
Appended(before, after) == SubSeq(after, Len(before) + 1, Len(after))

\* ------------------------------------------------------------------------
\* FullBlock::block_producer and signature recovery
\* ------------------------------------------------------------------------

\* bounds of the block data
MaxKeys == 3
MaxBlockIds == 2

SecretKeys == 1..MaxKeys
BlockIds == 1..MaxBlockIds

\* a public key: the key of a secret, or (skew > 0) one of the unrelated
\* points a recovery with the wrong flag or the wrong message yields
Key(secret, skew) == [secret |-> secret, skew |-> skew]

PublicKeyOf(secret) == Key(secret, 0)

\* PublicKey::default()
DefaultPublicKey == Key(0, 0)

NoKey == Key(-1, 0)

\* Option<PublicKey>
Some(key) == [some |-> TRUE, value |-> key]

None == [some |-> FALSE, value |-> NoKey]

\* header.id.into_message(): the 32 bytes of the block id as a Message
into_message(id) == [digest |-> id]

\* a signature a signer made over a message, with the recovery flag that
\* recovers the signer's key
Sign(secret, message, flag) ==
    [signer |-> secret, message |-> message, flag |-> flag, valid |-> TRUE]

\* 64 bytes that are no signature at all
InvalidSignature ==
    [signer |-> 0, message |-> into_message(0), flag |-> FALSE, valid |-> FALSE]

Signatures ==
    {Sign(k, into_message(id), f) : k \in SecretKeys, id \in BlockIds, f \in BOOLEAN}
    \cup {InvalidSignature}

\* poa.signature.into_signature(): the bytes of the schema value
into_signature(raw) == raw.bytes

\* the key recovered from (message, signature) under a recovery flag:
\* the signer's key for the signed message and the signature's own flag,
\* an unrelated point otherwise, NoKey when nothing can be recovered
Candidate(message, signature, flag) ==
    IF ~signature.valid THEN NoKey
    ELSE IF message = signature.message /\ flag = signature.flag
         THEN PublicKeyOf(signature.signer)
         ELSE Key(signature.signer,
                  1 + (IF flag = signature.flag THEN 0 ELSE 1)
                    + (IF message = signature.message THEN 0 ELSE 2))

\* signature.recover(&message): recovery under the flag the signature
\* carries, Err for bytes that are no signature
recover(signature, message) ==
    IF signature.valid
    THEN [ok |-> TRUE, key |-> Candidate(message, signature, signature.flag)]
    ELSE [ok |-> FALSE, key |-> NoKey]

\* block_producer with the Unknown arm merged into the Genesis arm
block_producer_default(b) ==
    LET message == into_message(b.header.id)
    IN CASE b.consensus.type = "PoAConsensus" ->
              LET signature == into_signature(b.consensus.signature)
                  producer_pub_key == recover(signature, message)
              IN IF producer_pub_key.ok THEN Some(producer_pub_key.key) ELSE None
         [] OTHER -> Some(DefaultPublicKey)

block_producer(b) ==
    LET message == into_message(b.header.id)
    IN CASE b.consensus.type = "Genesis" -> Some(DefaultPublicKey)
         [] b.consensus.type = "PoAConsensus" ->
              LET signature == into_signature(b.consensus.signature)
                  producer_pub_key == recover(signature, message)
              IN IF producer_pub_key.ok THEN Some(producer_pub_key.key) ELSE None
         [] b.consensus.type = "Unknown" -> None

\* the outcome of resolve: a recovery flag or an error
Flag(flag) == [ok |-> TRUE, flag |-> flag, error |-> "none"]

Failure(error) == [ok |-> FALSE, flag |-> FALSE, error |-> error]

\* resolve that tries recovery under flag false only
resolve_false_only(message, signature, expected) ==
    IF Candidate(message, signature, FALSE) = expected
    THEN Flag(FALSE)
    ELSE Failure("AmbiguousRecoveryFailure")

\* resolve(message, signature, expected_public_key): recovery under flag
\* false and under flag true; the flag whose candidate is the expected key
resolve(message, signature, expected) ==
    IF Candidate(message, signature, FALSE) = expected
    THEN Flag(FALSE)
    ELSE IF Candidate(message, signature, TRUE) = expected
         THEN Flag(TRUE)
         ELSE Failure("AmbiguousRecoveryFailure")

\* the blocks of the model: every consensus variant over every block id
Consensuses ==
    {[type |-> "Genesis", signature |-> [bytes |-> InvalidSignature]],
     [type |-> "Unknown", signature |-> [bytes |-> InvalidSignature]]}
    \cup {[type |-> "PoAConsensus", signature |-> [bytes |-> s]] : s \in Signatures}

Blocks == {[header |-> [id |-> id], consensus |-> c] : id \in BlockIds, c \in Consensuses}

NoBlock == [header |-> [id |-> 0],
            consensus |-> [type |-> "Unknown", signature |-> [bytes |-> InvalidSignature]]]

Pending == Failure("pending")

\* no block is looked at during a tracing run
BlockIdle ==
    /\ block = NoBlock
    /\ expected_public_key = NoKey
    /\ producer = None
    /\ resolved = Pending

AfterSeeding(n) == IF n >= Len(seeds) THEN "outer" ELSE "seed"

Init ==
    /\ BlockIdle
    /\ seeds \in SeqsUpTo(SeedChoice, 0, MaxSeeds)
    /\ chain \in Chains(Coins(seeds), BridgeKinds)
    /\ page_limit \in 1..MaxPage
    /\ stat = StatNew
    /\ unspent_utxos = << >>
    /\ cur_utxo_id = NoUtxo
    /\ seeded = 0
    /\ report = << >>
    /\ pc = AfterSeeding(0)
    /\ pushed_addresses = << >>
    /\ pushed_utxos = << >>
    /\ dequeues = 0
    /\ expanded = {}
    /\ fetches = {}

\* the conditions of the loops
CanSeedCoin == pc = "seed" /\ seeds[seeded + 1].kind = "coin"

CanSeedAddress == pc = "seed" /\ seeds[seeded + 1].kind = "address"

HasNextUtxo == pc = "outer" /\ stat.utxo_id_to_check # << >>

UtxosDrained == pc = "outer" /\ stat.utxo_id_to_check = << >>

HasNextAddress == pc = "inner" /\ stat.addresses_to_check # << >>

\* the disposition taken without draining the address queue
AddressesDrained_any == pc = "inner"

AddressesDrained == pc = "inner" /\ stat.addresses_to_check = << >>

\* some step of the run can be taken
CanStep ==
    \/ CanSeedCoin
    \/ CanSeedAddress
    \/ HasNextUtxo
    \/ UtxosDrained
    \/ HasNextAddress
    \/ AddressesDrained

\* one step that takes stat to s, having dequeued nothing
Record(s) ==
    /\ stat' = s
    /\ pushed_addresses' = pushed_addresses \o Appended(stat.addresses_to_check, s.addresses_to_check)
    /\ pushed_utxos' = pushed_utxos \o Appended(stat.utxo_id_to_check, s.utxo_id_to_check)

\* for (i, coin) in coins.iter().enumerate():
\*     check_utxo(UtxoId::new(Default::default(), i as u8 + 1), coin.amount);
\*     check_address(coin.owner)
SeedCoin ==
    /\ CanSeedCoin
    /\ LET coin == seeds[seeded + 1]
           k == Len(CoinsBefore(seeds, seeded + 1))
       IN Record(check_address(check_utxo(stat, CoinUtxoId(k), coin.amount), coin.owner))
    /\ seeded' = seeded + 1
    /\ pc' = AfterSeeding(seeded + 1)
    /\ UNCHANGED <<run_inputs, block_vars, unspent_utxos, cur_utxo_id, report, dequeues, expanded, fetches>>

\* an address seeded on its own: check_address(owner)
SeedAddress ==
    /\ CanSeedAddress
    /\ Record(check_address(stat, seeds[seeded + 1].owner))
    /\ seeded' = seeded + 1
    /\ pc' = AfterSeeding(seeded + 1)
    /\ UNCHANGED <<run_inputs, block_vars, unspent_utxos, cur_utxo_id, report, dequeues, expanded, fetches>>

\* while let Some(utxo_id) = stat.next_utxo_id()
NextUtxo ==
    /\ HasNextUtxo
    /\ cur_utxo_id' = Head(stat.utxo_id_to_check)
    /\ stat' = [stat EXCEPT !.utxo_id_to_check = Tail(@)]
    /\ dequeues' = dequeues + 1
    /\ pc' = "inner"
    /\ UNCHANGED <<run_inputs, block_vars, unspent_utxos, seeded, report, pushed_addresses, pushed_utxos,
                   expanded, fetches>>

\* while let Some(owner) = stat.next_address(): one request with no cursor,
\* then analyze_transactions over the results of that page
NextAddress ==
    /\ HasNextAddress
    /\ LET owner == Head(stat.addresses_to_check)
           popped == [stat EXCEPT !.addresses_to_check = Tail(@)]
           request == [cursor |-> NoCursor, results |-> RequestResults]
           page == transactions_by_owner(chain, page_limit, owner, request)
           s == analyze_transactions(page.results, popped)
       IN /\ stat' = s
          /\ pushed_addresses' =
                pushed_addresses \o Appended(popped.addresses_to_check, s.addresses_to_check)
          /\ pushed_utxos' =
                pushed_utxos \o Appended(popped.utxo_id_to_check, s.utxo_id_to_check)
          /\ fetches' = fetches \cup
                {[owner |-> owner, cursor |-> request.cursor,
                  has_next_page |-> page.has_next_page,
                  analyzed |-> {page.results[i].transaction.id : i \in DOMAIN page.results}]}
    /\ dequeues' = dequeues + 1
    /\ UNCHANGED <<run_inputs, block_vars, unspent_utxos, cur_utxo_id, seeded, report, pc, expanded>>

\* a failed request taken for an empty history: the loop goes on
FetchFails_continue ==
    /\ HasNextAddress
    /\ stat' = [stat EXCEPT !.addresses_to_check = Tail(@)]
    /\ dequeues' = dequeues + 1
    /\ pc' = "inner"
    /\ UNCHANGED <<run_inputs, block_vars, unspent_utxos, cur_utxo_id, seeded, report, pushed_addresses,
                   pushed_utxos, expanded, fetches>>

\* .expect("Should get transactions") on a failed request
FetchFails ==
    /\ HasNextAddress
    /\ stat' = [stat EXCEPT !.addresses_to_check = Tail(@)]
    /\ dequeues' = dequeues + 1
    /\ pc' = "panicked"
    /\ UNCHANGED <<run_inputs, block_vars, unspent_utxos, cur_utxo_id, seeded, report, pushed_addresses,
                   pushed_utxos, expanded, fetches>>

\* if let Some(spent) = stat.utxo_ids.get(&utxo_id): the outputs of the
\* spending transaction are expanded (the cache lookup panics on a miss)
DispositionSpent ==
    /\ AddressesDrained
    /\ cur_utxo_id \in DOMAIN stat.utxo_ids
    /\ LET tx_id == stat.utxo_ids[cur_utxo_id].spent
       IN IF tx_id \in DOMAIN stat.txs
          THEN /\ Record(expand_outputs(stat, tx_id, stat.txs[tx_id].outputs, 1))
               /\ expanded' = expanded \cup {cur_utxo_id}
               /\ pc' = "outer"
          ELSE /\ pc' = "panicked"
               /\ UNCHANGED <<stat, pushed_addresses, pushed_utxos, expanded>>
    /\ UNCHANGED <<run_inputs, block_vars, unspent_utxos, cur_utxo_id, seeded, report, dequeues, fetches>>

\* else: unspent_utxos.push(utxo_id)
DispositionUnspent ==
    /\ AddressesDrained
    /\ cur_utxo_id \notin DOMAIN stat.utxo_ids
    /\ unspent_utxos' = Append(unspent_utxos, cur_utxo_id)
    /\ pc' = "outer"
    /\ UNCHANGED <<run_inputs, block_vars, stat, cur_utxo_id, seeded, report, pushed_addresses, pushed_utxos,
                   dequeues, expanded, fetches>>

\* the outer loop ends when next_utxo_id() is None; the report pairs each
\* unspent output with checked_utxo_id.get(&utxo_id).unwrap()
Finish ==
    /\ UtxosDrained
    /\ IF \A i \in DOMAIN unspent_utxos : unspent_utxos[i] \in DOMAIN stat.checked_utxo_id
       THEN /\ report' = [i \in DOMAIN unspent_utxos |->
                            <<unspent_utxos[i], stat.checked_utxo_id[unspent_utxos[i]]>>]
            /\ pc' = "done"
       ELSE /\ report' = report
            /\ pc' = "panicked"
    /\ UNCHANGED <<run_inputs, block_vars, stat, unspent_utxos, cur_utxo_id, seeded, pushed_addresses,
                   pushed_utxos, dequeues, expanded, fetches>>

Next ==
    \/ SeedCoin
    \/ SeedAddress
    \/ NextUtxo
    \/ NextAddress
    \/ FetchFails
    \/ DispositionSpent
    \/ DispositionUnspent
    \/ Finish

Spec == Init /\ [][Next]_vars

\* the same run over chains whose transactions carry receipts of every
\* kind, from at most one seeding operation and with whole-history pages
InitReceipts ==
    /\ BlockIdle
    /\ seeds \in SeqsUpTo(SeedChoice, 0, MaxSeeds - 1)
    /\ chain \in Chains(Coins(seeds), ReceiptKind)
    /\ page_limit = MaxPage
    /\ stat = StatNew
    /\ unspent_utxos = << >>
    /\ cur_utxo_id = NoUtxo
    /\ seeded = 0
    /\ report = << >>
    /\ pc = AfterSeeding(0)
    /\ pushed_addresses = << >>
    /\ pushed_utxos = << >>
    /\ dequeues = 0
    /\ expanded = {}
    /\ fetches = {}

ReceiptSpec == InitReceipts /\ [][Next]_vars

\* the run over one block: block_producer, then resolve against the key
\* known out of band
tracer_vars == <<seeds, chain, page_limit, stat, unspent_utxos, cur_utxo_id, seeded, report,
                 pushed_addresses, pushed_utxos, dequeues, expanded, fetches>>

InitBlock ==
    /\ block \in Blocks
    /\ expected_public_key \in {PublicKeyOf(k) : k \in SecretKeys}
    /\ producer = None
    /\ resolved = Pending
    /\ seeds = << >>
    /\ chain = << >>
    /\ page_limit = 1
    /\ stat = StatNew
    /\ unspent_utxos = << >>
    /\ cur_utxo_id = NoUtxo
    /\ seeded = 0
    /\ report = << >>
    /\ pc = "block"
    /\ pushed_addresses = << >>
    /\ pushed_utxos = << >>
    /\ dequeues = 0
    /\ expanded = {}
    /\ fetches = {}

BlockProducer ==
    /\ pc = "block"
    /\ producer' = block_producer(block)
    /\ pc' = "produced"
    /\ UNCHANGED <<tracer_vars, block, expected_public_key, resolved>>

Resolve ==
    /\ pc = "produced"
    /\ block.consensus.type = "PoAConsensus"
    /\ resolved' = resolve(into_message(block.header.id),
                           into_signature(block.consensus.signature),
                           expected_public_key)
    /\ pc' = "resolved"
    /\ UNCHANGED <<tracer_vars, block, expected_public_key, producer>>

BlockNext ==
    \/ BlockProducer
    \/ Resolve

BlockSpec == InitBlock /\ [][BlockNext]_vars

\* ------------------------------------------------------------------------
\* Properties
\* ------------------------------------------------------------------------

Returned == pc = "done"

UnspentReport == Range(unspent_utxos)

Tracked == DOMAIN stat.checked_utxo_id

\* C1: when the driver loop has exited (the run returned), the queue of
\* pending addresses and the queue of pending outputs are both empty.
C1_QueuesDrainedAtReturn ==
    Returned => /\ stat.addresses_to_check = << >>
                /\ stat.utxo_id_to_check = << >>

Count(seq, x) == Cardinality({i \in DOMAIN seq : seq[i] = x})

\* the MessageOut receipts above the threshold among the transactions of
\* an address's history, as (transaction, receipt) positions of the chain
BridgeExits(owner) ==
    UNION { { <<n, i>> : i \in {j \in DOMAIN chain[n].receipts :
                                  /\ chain[n].receipts[j].type = "MessageOut"
                                  /\ chain[n].receipts[j].amount > THRESHOLD} } :
            n \in {m \in DOMAIN chain : Involves(owner, chain[m])} }

MessageIdOf(receipt) ==
    compute_message_id(receipt.sender, receipt.recipient, receipt.nonce,
                       receipt.amount, receipt.data)

NoOutputSeeded == \A i \in DOMAIN seeds : seeds[i].kind = "address"

\* C2: bridge exit. When an address is seeded, no output is seeded, and the
\* address's history holds a transaction with a MessageOut receipt above the
\* threshold, then at the end of the run the bridge-message list holds the
\* identifier of that receipt exactly once and no output is reported unspent.
C2_BridgeExitReported ==
    (Returned /\ NoOutputSeeded) =>
        \A a \in SeededAddresses : \A e \in BridgeExits(a) :
            /\ Count(stat.message_id, MessageIdOf(chain[e[1]].receipts[e[2]])) = 1
            /\ UnspentReport = {}

\* the linear chain: one seeded coin O1 above the threshold, owned by `a`;
\* one transaction, which spends O1 into a single base-asset coin output
\* O2 of the same amount owned by `b` and produces no receipt
LinearChain(a, b) ==
    /\ Len(seeds) = 1
    /\ seeds[1].kind = "coin"
    /\ seeds[1].owner = a
    /\ seeds[1].amount > THRESHOLD
    /\ Len(chain) = 1
    /\ chain[1].receipts = << >>
    /\ Len(chain[1].transaction.inputs) = 1
    /\ IsCoinInput(chain[1].transaction.inputs[1])
    /\ chain[1].transaction.inputs[1].utxo_id = CoinUtxoId(1)
    /\ Len(chain[1].transaction.outputs) = 1
    /\ IsCoinOutput(chain[1].transaction.outputs[1])
    /\ chain[1].transaction.outputs[1].to = b
    /\ chain[1].transaction.outputs[1].amount = seeds[1].amount
    /\ chain[1].transaction.outputs[1].asset_id = base_asset_id

LinearChainReport ==
    LET O1 == CoinUtxoId(1)
        O2 == UtxoId(chain[1].transaction.id, 0)
    IN /\ \E i \in DOMAIN report : report[i] = <<O2, seeds[1].amount>>
       /\ \A i \in DOMAIN report : report[i][1] # O1
       /\ stat.message_id = << >>

\* C3: linear chain. When O1 (above the threshold, base asset, owned by A)
\* is seeded together with A, A's only transaction spends O1 into a single
\* output O2 of the same amount owned by B, and nothing spends O2, then at
\* the end of the run the unspent report holds O2 with that amount, does
\* not hold O1, and the bridge-message list is empty.
C3_LinearChainReported ==
    \A a, b \in Address : (Returned /\ LinearChain(a, b)) => LinearChainReport

\* a transaction of the chain consumes the output as a coin input
Consumed(u) ==
    \E n \in DOMAIN chain : \E j \in DOMAIN chain[n].transaction.inputs :
        /\ IsCoinInput(chain[n].transaction.inputs[j])
        /\ chain[n].transaction.inputs[j].utxo_id = u

\* C4: unspent soundness. At the end of the run a tracked output is in the
\* unspent report if and only if no transaction of the chain consumes it as
\* a coin input (also when its owner was already in checked_addresses when
\* it was seeded, as the faucet address is).
C4_UnspentIffNeverConsumed ==
    Returned => \A u \in Tracked : (u \in UnspentReport) <=> ~Consumed(u)

\* C5: disjoint classification. At the end of the run every tracked output
\* is either in the unspent report, or a key of the spent-by map whose
\* spending transaction was expanded, and never both; no output is twice in
\* the unspent report; no reported output is a key of the spent-by map.
C5_DisjointClassification ==
    Returned =>
        /\ \A u \in Tracked :
              (u \in UnspentReport) <=> ~(u \in DOMAIN stat.utxo_ids /\ u \in expanded)
        /\ NoDuplicates(unspent_utxos)
        /\ UnspentReport \cap DOMAIN stat.utxo_ids = {}

\* C6: at-most-once enqueue. Over the whole run no address is pushed twice
\* onto addresses_to_check and no output twice onto utxo_id_to_check, also
\* after it was dequeued.
C6_AtMostOnceEnqueue ==
    /\ NoDuplicates(pushed_addresses)
    /\ NoDuplicates(pushed_utxos)

\* two expanded outputs were spent by the same transaction, so its tracked
\* output and that output's address were checked a second time
C6_Witness ==
    /\ Returned
    /\ \E u1, u2 \in expanded :
         /\ u1 # u2
         /\ stat.utxo_ids[u1].spent = stat.utxo_ids[u2].spent
         /\ LET tx == stat.txs[stat.utxo_ids[u1].spent]
            IN \E j \in DOMAIN tx.outputs :
                 /\ UtxoId(tx.id, j - 1) \in Range(pushed_utxos)
                 /\ tx.outputs[j].to \in Range(pushed_addresses)

UtxoUniverse == {UtxoId(t, o) : t \in 0..MaxTxs, o \in 0..1}

\* C7: idempotent seeding. From any reachable state a second
\* check_address(a), or a second check_utxo(u, amt) with the same
\* arguments, leaves the state a single call produces.
C7_IdempotentSeeding ==
    /\ \A a \in Address :
         LET once == check_address(stat, a)
         IN check_address(once, a) = once
    /\ \A u \in UtxoUniverse :
         LET once == check_utxo(stat, u, 2 * THRESHOLD)
         IN check_utxo(once, u, 2 * THRESHOLD) = once

\* mid-run, with work pending, a call that does change the state
C7_Witness ==
    /\ pc = "inner"
    /\ stat.utxo_id_to_check # << >>
    /\ stat.addresses_to_check # << >>
    /\ \E a \in Address : check_address(stat, a) # stat
    /\ \E u \in UtxoUniverse : check_utxo(stat, u, THRESHOLD) # stat

Stopped == pc \in {"done", "panicked"}

\* the progress of a run: dequeues made, seeding operations run, and the
\* position in the loops
Phase == CASE pc = "inner" -> 2
           [] pc \in {"seed", "outer"} -> 1
           [] OTHER -> 0

Progress == 3 * dequeues + seeded - Phase

\* C8: termination. The run stops: until it has stopped a step can always
\* be taken and every step makes progress (no state is visited twice), and
\* when it has stopped the number of dequeue steps (addresses inspected
\* plus outputs checked) is at most the number of distinct addresses plus
\* distinct outputs reachable from the seed set.
C8_Termination ==
    /\ [](Stopped \/ CanStep)
    /\ [][Progress' > Progress]_vars
    /\ [](Stopped => dequeues <= StepBound)

\* a run over a cycle of addresses (a transaction of A pays B, one of B
\* pays A) that returned after dequeuing everything reachable
C8_Witness ==
    /\ Returned
    /\ dequeues = StepBound
    /\ \E n, m \in DOMAIN chain :
         /\ chain[n].transaction.inputs[1].owner = "A"
         /\ chain[n].transaction.outputs[1].to = "B"
         /\ chain[m].transaction.inputs[1].owner = "B"
         /\ chain[m].transaction.outputs[1].to = "A"
         /\ {n, m} \subseteq DOMAIN stat.txs

HistoryIds(owner) ==
    {History(chain, owner)[i].transaction.id : i \in DOMAIN History(chain, owner)}

Inspected == {f.owner : f \in fetches}

\* C9: pagination. For every dequeued address the first request carries no
\* cursor, requests follow until a page reports no further results, and the
\* transactions classified for the address are those of all pages: its
\* whole history.
C9_AllPagesFetched ==
    \A a \in Inspected :
        /\ \E f \in fetches : f.owner = a /\ f.cursor = NoCursor
        /\ \E f \in fetches : f.owner = a /\ ~f.has_next_page
        /\ UNION {f.analyzed : f \in {g \in fetches : g.owner = a}} = HistoryIds(a)

\* the chain's output that an output reference of a transaction names
OutputAt(u) == chain[u.tx_id].transaction.outputs[u.output_index + 1]

\* C10: output threshold rule. When a tracked output was found spent by a
\* transaction, each Coin, Change or Variable output (T, i) of it is tracked
\* (with its amount, its address seeded) if and only if its amount is above
\* the threshold and its asset is the base asset; so every tracked output
\* that is not an initial seed is above the threshold and in the base asset.
C10_OutputThresholdRule ==
    /\ \A u \in expanded :
         LET tx == stat.txs[stat.utxo_ids[u].spent]
         IN \A j \in DOMAIN tx.outputs :
              IsCoinOutput(tx.outputs[j]) =>
                LET o == tx.outputs[j]
                    ref == UtxoId(tx.id, j - 1)
                    above == o.amount > THRESHOLD /\ o.asset_id = base_asset_id
                IN /\ (ref \in Tracked) <=> above
                   /\ above => /\ o.to \in stat.checked_addresses
                               /\ stat.checked_utxo_id[ref] = o.amount
    /\ \A u \in Tracked \ SeededUtxos :
         /\ stat.checked_utxo_id[u] > THRESHOLD
         /\ u.tx_id \in DOMAIN chain
         /\ OutputAt(u).amount = stat.checked_utxo_id[u]
         /\ OutputAt(u).asset_id = base_asset_id

\* an expanded transaction with a dust output at index 0 (not tracked) and
\* an output above the threshold at index 1 (tracked)
C10_Witness ==
    /\ Returned
    /\ \E u \in expanded :
         LET tx == stat.txs[stat.utxo_ids[u].spent]
         IN /\ Len(tx.outputs) = 2
            /\ tx.outputs[1].amount = THRESHOLD
            /\ UtxoId(tx.id, 0) \notin Tracked
            /\ UtxoId(tx.id, 1) \in Tracked

\* ------------------------------------------------------------------------
\* Receipt classification (checked under ReceiptSpec)
\* ------------------------------------------------------------------------

\* the step that fetches and classifies the history of the next address
Classifies == HasNextAddress /\ pc' = "inner"

\* the page that step classifies
FirstPage ==
    transactions_by_owner(chain, page_limit, Head(stat.addresses_to_check),
                          [cursor |-> NoCursor, results |-> RequestResults]).results

TransferReceipt(receipt) == receipt.type \in {"Transfer", "TransferOut"}

AboveThresholdInBase(receipt) ==
    receipt.amount > THRESHOLD /\ receipt.asset_id = base_asset_id

CoinInputOwners(page) ==
    UNION { {page[k].transaction.inputs[j].owner :
                j \in {x \in DOMAIN page[k].transaction.inputs :
                          IsCoinInput(page[k].transaction.inputs[x])}} : k \in DOMAIN page }

\* C11: receipt threshold correctness. When a transaction is classified,
\* a Transfer or TransferOut receipt with amount <= THRESHOLD or another
\* asset seeds no output and no address (the addresses pushed by the step
\* are owners of coin inputs), and one with amount > THRESHOLD in the base
\* asset seeds its destination output: an output reference of that
\* transaction is in the dedup map and was pushed on the output queue.
C11_ReceiptThresholdRule ==
    [][Classifies =>
        \A k \in DOMAIN FirstPage : \A i \in DOMAIN FirstPage[k].receipts :
            LET receipt == FirstPage[k].receipts[i]
            IN TransferReceipt(receipt) =>
                 IF AboveThresholdInBase(receipt)
                 THEN \E u \in DOMAIN stat'.checked_utxo_id :
                         /\ u.tx_id = FirstPage[k].transaction.id
                         /\ u \in Range(pushed_utxos')
                 ELSE /\ pushed_utxos' = pushed_utxos
                      /\ Range(Appended(pushed_addresses, pushed_addresses'))
                            \subseteq CoinInputOwners(FirstPage)]_vars

\* the identifiers of the MessageOut receipts above the threshold, in order
BridgeIdsOf(receipts) ==
    LET above == SelectSeq(receipts,
                    LAMBDA r : r.type = "MessageOut" /\ r.amount > THRESHOLD)
    IN [i \in DOMAIN above |-> MessageIdOf(above[i])]

RECURSIVE BridgeIdsFrom(_, _)
BridgeIdsFrom(page, k) ==
    IF k > Len(page) THEN << >>
    ELSE BridgeIdsOf(page[k].receipts) \o BridgeIdsFrom(page, k + 1)

\* C12: bridge-message threshold rule. A step that classifies a page
\* appends to the bridge-message list exactly the identifiers of the page's
\* MessageOut receipts with amount > THRESHOLD, in order (a MessageOut of
\* amount THRESHOLD, a Transfer and a TransferOut append nothing, whatever
\* the asset), and no other step changes the list.
C12_BridgeThresholdRule ==
    [][IF Classifies
       THEN stat'.message_id = stat.message_id \o BridgeIdsFrom(FirstPage, 1)
       ELSE stat'.message_id = stat.message_id]_vars

\* a run that classified a MessageOut of amount THRESHOLD and a MessageOut
\* above the threshold in one page, with exactly one identifier listed
C12_Witness ==
    /\ Returned
    /\ Len(stat.message_id) = 1
    /\ \E f \in fetches : \E n, m \in f.analyzed :
          /\ chain[n].receipts # << >> /\ chain[m].receipts # << >>
          /\ chain[n].receipts[1].type = "MessageOut"
          /\ chain[n].receipts[1].amount = THRESHOLD
          /\ chain[m].receipts[1].type = "MessageOut"
          /\ chain[m].receipts[1].amount > THRESHOLD

\* ------------------------------------------------------------------------
\* Fetch failure and queue priority
\* ------------------------------------------------------------------------

\* an address was dequeued and no page was obtained for it
FetchFailed ==
    \E a \in Range(pushed_addresses) :
        a \notin Range(stat.addresses_to_check) /\ a \notin Inspected

\* C13: fetch failure. Once a transactions-by-owner fetch has failed the
\* run has stopped with an error: no step is possible, so nothing more is
\* dequeued or classified, and no report has been produced.
C13_FetchFailureAborts ==
    /\ [](FetchFailed => (pc = "panicked" /\ report = << >> /\ ~CanStep))
    /\ [][FetchFailed => (/\ stat' = stat
                          /\ dequeues' = dequeues
                          /\ unspent_utxos' = unspent_utxos
                          /\ report' = report)]_vars

\* a fetch failed while an address and an output were still pending
C13_Witness ==
    /\ FetchFailed
    /\ pc = "panicked"
    /\ stat.addresses_to_check # << >>
    /\ stat.utxo_id_to_check # << >>

\* the step that decides spent or unspent for the dequeued output
Disposition == pc = "inner" /\ pc' # "inner" /\ dequeues' = dequeues

\* C14: queue priority. Every disposition check of an output is made in a
\* state where the pending-address queue is empty and every address
\* enqueued so far has been fetched and classified.
C14_QueuePriority ==
    [][Disposition => (/\ stat.addresses_to_check = << >>
                       /\ Range(pushed_addresses) \subseteq Inspected)]_vars

\* a run that expanded a spent output after fetching two addresses
C14_Witness ==
    /\ Returned
    /\ expanded # {}
    /\ Cardinality(Inspected) >= 2
    /\ unspent_utxos # << >>

\* ------------------------------------------------------------------------
\* Block producer recovery (checked under BlockSpec)
\* ------------------------------------------------------------------------

BlockMessage == into_message(block.header.id)

BlockSignature == into_signature(block.consensus.signature)

\* the signature was made by the expected key over some message, so that
\* one of the two flags recovers that key when the message is the block's
SignedByExpected ==
    /\ BlockSignature.valid
    /\ BlockSignature.message = BlockMessage
    /\ PublicKeyOf(BlockSignature.signer) = expected_public_key

\* C15: recovery disambiguation. resolve returns the recovery flag the
\* signature was generated with when the signature is the expected key's
\* over the message; a returned flag always recovers the expected key; and
\* when neither candidate equals the expected key (another signer, another
\* message, bytes that are no signature) it fails with
\* AmbiguousRecoveryFailure and returns no flag.
C15_RecoveryDisambiguation ==
    pc = "resolved" =>
        /\ SignedByExpected => resolved = Flag(BlockSignature.flag)
        /\ resolved.ok =>
              Candidate(BlockMessage, BlockSignature, resolved.flag) = expected_public_key
        /\ (\A f \in BOOLEAN :
                Candidate(BlockMessage, BlockSignature, f) # expected_public_key)
              <=> resolved = Failure("AmbiguousRecoveryFailure")

\* a signature generated with flag true resolved to flag true
C15_Witness ==
    /\ pc = "resolved"
    /\ SignedByExpected
    /\ BlockSignature.flag
    /\ resolved = Flag(TRUE)

\* C16: block_producer always returns, and its result depends only on the
\* consensus variant: Some(default key) for Genesis, None for Unknown, and
\* for PoA Some(k) exactly when recovery over the header-id message gives
\* k (the signer's key for a signature over this header id) and None when
\* recovery fails.
C16_BlockProducerCases ==
    /\ pc = "block" => ENABLED BlockProducer
    /\ pc \in {"produced", "resolved"} =>
          /\ block.consensus.type = "Genesis" => producer = Some(DefaultPublicKey)
          /\ block.consensus.type = "Unknown" => producer = None
          /\ block.consensus.type = "PoAConsensus" =>
                /\ producer.some <=> BlockSignature.valid
                /\ producer.some =>
                      producer.value =
                          Candidate(BlockMessage, BlockSignature, BlockSignature.flag)
                /\ (BlockSignature.valid /\ BlockSignature.message = BlockMessage)
                      => producer = Some(PublicKeyOf(BlockSignature.signer))

\* a PoA block whose signature is over another header id: a key is
\* returned, and it is not the signer's
C16_Witness ==
    /\ pc = "produced"
    /\ block.consensus.type = "PoAConsensus"
    /\ BlockSignature.valid
    /\ BlockSignature.message # BlockMessage
    /\ producer.some
    /\ producer.value # PublicKeyOf(BlockSignature.signer)

\* ------------------------------------------------------------------------
\* Input classification, bridge messages, the cache and tracked amounts
\* ------------------------------------------------------------------------

\* the coin inputs of the transactions of a page
CoinInputs(page) ==
    UNION { {page[k].transaction.inputs[j] :
                j \in {x \in DOMAIN page[k].transaction.inputs :
                          IsCoinInput(page[k].transaction.inputs[x])}} : k \in DOMAIN page }

\* C17: input classification only touches tracked entities. A step that
\* classifies a page adds no address to the address queue (a pushed
\* address is one that was not tracked), and every spend it records is of
\* a coin input whose owner was a tracked address before the step.
C17_InputsOnlyTouchTracked ==
    [][Classifies =>
        /\ pushed_addresses' = pushed_addresses
        /\ \A input \in CoinInputs(FirstPage) :
              input.utxo_id \in (DOMAIN stat'.utxo_ids) \ (DOMAIN stat.utxo_ids)
                 => input.owner \in stat.checked_addresses]_vars

\* C18: no double counting of bridge messages. The identifier of every
\* MessageOut receipt above the threshold of a classified transaction is
\* in the bridge-message list exactly once, also when the transaction is
\* in the fetched history of several inspected addresses.
C18_NoDoubleCounting ==
    \A f \in fetches : \A n \in f.analyzed : \A i \in DOMAIN chain[n].receipts :
        (/\ chain[n].receipts[i].type = "MessageOut"
         /\ chain[n].receipts[i].amount > THRESHOLD)
            => Count(stat.message_id, MessageIdOf(chain[n].receipts[i])) = 1

\* C19: cache completeness. Every transaction id stored as a value of the
\* spent-by map is a key of the transaction cache, and the lookup of the
\* spending transaction in a disposition check never fails.
C19_CacheComplete ==
    /\ [](\A u \in DOMAIN stat.utxo_ids : stat.utxo_ids[u].spent \in DOMAIN stat.txs)
    /\ [][Disposition => pc' # "panicked"]_vars

\* a spent output was expanded from the cached transaction, which was
\* classified for two addresses
C19_Witness ==
    /\ expanded # {}
    /\ \E u \in expanded :
          Cardinality({f \in fetches : stat.utxo_ids[u].spent \in f.analyzed}) >= 2

\* the amount an output reference carries on the chain: the coin's for an
\* output of the initial state, the transaction output's otherwise
OriginalAmount(u) ==
    IF u.tx_id = DefaultTxId THEN Coins(seeds)[u.output_index].amount
    ELSE OutputAt(u).amount

\* C20: a tracked amount is frozen at first seeding. No step changes or
\* removes a recorded amount; check_utxo(u, b) on a tracked u leaves the
\* amount recorded for u, whatever b; every output reference in the
\* pending-output queue or in the unspent list has a recorded amount; and
\* the report pairs each unspent output with the amount it was seeded with.
C20_TrackedAmountFrozen ==
    /\ [][\A u \in DOMAIN stat.checked_utxo_id :
              /\ u \in DOMAIN stat'.checked_utxo_id
              /\ stat'.checked_utxo_id[u] = stat.checked_utxo_id[u]]_vars
    /\ [](\A u \in Tracked : \A b \in {THRESHOLD, 3 * THRESHOLD} :
              check_utxo(stat, u, b).checked_utxo_id[u] = stat.checked_utxo_id[u])
    /\ [](Range(stat.utxo_id_to_check) \cup Range(unspent_utxos) \subseteq Tracked)
    /\ [](Returned =>
              /\ Len(report) = Len(unspent_utxos)
              /\ \A i \in DOMAIN report :
                    /\ report[i][1] = unspent_utxos[i]
                    /\ report[i][2] = OriginalAmount(report[i][1]))

\* a transaction expanded twice (for two outputs it spends), so that
\* check_utxo ran again on its tracked output, which is reported unspent
C20_Witness ==
    /\ Returned
    /\ \E u1, u2 \in expanded :
          /\ u1 # u2
          /\ stat.utxo_ids[u1].spent = stat.utxo_ids[u2].spent
          /\ \E i \in DOMAIN report : report[i][1].tx_id = stat.utxo_ids[u1].spent

====
